---- MODULE Spec2Model ----
(***************************************************************************)
(* A model of src/app.py, the market scanner: one script run computes, for *)
(* every ticker of the selected list, a news score, a fundamental score    *)
(* and a trend score, blends them with the three slider weights, labels    *)
(* the blend with classify and renders the records with generate_report.   *)
(*                                                                         *)
(* Python floats are IEEE-754 doubles.  The blend of line 179-183 is       *)
(* computed here with the same roundings: a double is a sign and a         *)
(* magnitude in units of 2^-60 held in four limbs of 20 bits, and every    *)
(* operation rounds its exact result to 53 significant bits, ties to even. *)
(* Texts (headlines, tickers) are sequences of one-character strings.      *)
(***************************************************************************)
EXTENDS Integers, Sequences, FiniteSets, TLC

(***************************************************************************)
(* IEEE-754 double arithmetic, as far as the script uses it.               *)
(* m[1] is the least significant limb; m[4] is the integer part.           *)
(* Magnitudes stay below 2^13 in the script (|news| <= 175, |fund| <= 20,  *)
(* |trend| <= 10), so at most 20 low bits are ever rounded away.           *)
(***************************************************************************)
LimbBase == 2^20

Norm(a1, a2, a3, a4) ==
    LET b2 == a2 + (a1 \div LimbBase)
        b3 == a3 + (b2 \div LimbBase)
        b4 == a4 + (b3 \div LimbBase)
    IN  <<a1 % LimbBase, b2 % LimbBase, b3 % LimbBase, b4>>

MagZero == <<0, 0, 0, 0>>

MagAdd(x, y) == Norm(x[1] + y[1], x[2] + y[2], x[3] + y[3], x[4] + y[4])

\* x - y for x >= y
MagSub(x, y) == Norm(x[1] - y[1], x[2] - y[2], x[3] - y[3], x[4] - y[4])

MagScale(x, n) == Norm(x[1] * n, x[2] * n, x[3] * n, x[4] * n)

MagLess(x, y) ==
    \/ x[4] < y[4]
    \/ x[4] = y[4] /\ x[3] < y[3]
    \/ x[4] = y[4] /\ x[3] = y[3] /\ x[2] < y[2]
    \/ x[4] = y[4] /\ x[3] = y[3] /\ x[2] = y[2] /\ x[1] < y[1]

RECURSIVE BitLen(_)
BitLen(x) == IF x = 0 THEN 0 ELSE 1 + BitLen(x \div 2)

\* position of the leading one bit (bit 0 is worth 2^-60), -1 for zero
MsbPos(m) ==
    IF m[4] # 0 THEN 60 + BitLen(m[4]) - 1
    ELSE IF m[3] # 0 THEN 40 + BitLen(m[3]) - 1
    ELSE IF m[2] # 0 THEN 20 + BitLen(m[2]) - 1
    ELSE BitLen(m[1]) - 1

\* round an exact magnitude to 53 significant bits, ties to even; sticky
\* says that the exact value has non-zero bits below the unit 2^-60
RoundMag(m, sticky) ==
    LET d == MsbPos(m) - 52
    IN  IF d <= 0 THEN m
        ELSE LET q    == 2^d
                 low  == m[1] % q
                 half == q \div 2
                 odd  == IF d = 20 THEN m[2] % 2 = 1 ELSE (m[1] \div q) % 2 = 1
                 up   == \/ low > half
                         \/ low = half /\ (sticky \/ odd)
             IN  Norm(m[1] - low + (IF up THEN q ELSE 0), m[2], m[3], m[4])

Abs(n) == IF n < 0 THEN -n ELSE n

FZero == [neg |-> FALSE, m |-> MagZero]

\* a / b, Python true division of ints a >= 0, b > 0 (correctly rounded)
FDivInt(a, b) ==
    LET r4 == a % b
        r3 == (r4 * LimbBase) % b
        r2 == (r3 * LimbBase) % b
        r1 == (r2 * LimbBase) % b
        q  == <<(r2 * LimbBase) \div b, (r3 * LimbBase) \div b,
                (r4 * LimbBase) \div b, a \div b>>
    IN  [neg |-> FALSE, m |-> RoundMag(q, r1 # 0)]

\* n * x for a Python int n and a float x
FMulInt(n, x) ==
    [neg |-> (n < 0) # x.neg, m |-> RoundMag(MagScale(x.m, Abs(n)), FALSE)]

\* x + y
FAdd(x, y) ==
    IF x.neg = y.neg
    THEN [neg |-> x.neg, m |-> RoundMag(MagAdd(x.m, y.m), FALSE)]
    ELSE IF x.m = y.m THEN FZero
    ELSE IF MagLess(x.m, y.m)
         THEN [neg |-> y.neg, m |-> RoundMag(MagSub(y.m, x.m), FALSE)]
         ELSE [neg |-> x.neg, m |-> RoundMag(MagSub(x.m, y.m), FALSE)]

\* x >= n for a float x and an int n >= 0
FGeInt(x, n) ==
    IF x.neg THEN x.m = MagZero /\ n = 0
    ELSE ~MagLess(x.m, <<0, 0, 0, n>>)

\* round(x, 2): the double nearest to the two-decimal rounding (ties to
\* even) of the exact value of x
PyRound2(x) ==
    LET s    == MagScale(x.m, 100)
        half == LimbBase \div 2
        tie  == s[3] = half /\ s[2] = 0 /\ s[1] = 0
        up   == \/ s[3] > half
                \/ s[3] = half /\ (s[2] > 0 \/ s[1] > 0)
                \/ tie /\ s[4] % 2 = 1
        D    == s[4] + (IF up THEN 1 ELSE 0)
    IN  [neg |-> x.neg, m |-> FDivInt(D, 100).m]

(***************************************************************************)
(* Text.  A Python str is a sequence of one-character strings.             *)
(***************************************************************************)
LowerCase ==
    <<"a", "b", "c", "d", "e", "f", "g", "h", "i", "j", "k", "l", "m",
      "n", "o", "p", "q", "r", "s", "t", "u", "v", "w", "x", "y", "z">>

UpperCase ==
    <<"A", "B", "C", "D", "E", "F", "G", "H", "I", "J", "K", "L", "M",
      "N", "O", "P", "Q", "R", "S", "T", "U", "V", "W", "X", "Y", "Z">>

Letters == 1..Len(LowerCase)

\* one character of str.lower() / str.upper(), on the ASCII range
LowerMap == [k \in Letters |-> UpperCase[k] :> LowerCase[k]]

UpperMap == [k \in Letters |-> LowerCase[k] :> UpperCase[k]]

RECURSIVE MapOf(_, _)
MapOf(pairs, k) == IF k = 0 THEN <<>> ELSE pairs[k] @@ MapOf(pairs, k - 1)

ToLower == MapOf(LowerMap, Len(LowerCase))

ToUpper == MapOf(UpperMap, Len(UpperCase))

LowerChar(c) == IF c \in DOMAIN ToLower THEN ToLower[c] ELSE c

UpperChar(c) == IF c \in DOMAIN ToUpper THEN ToUpper[c] ELSE c

RECURSIVE lower(_)
lower(text) ==
    IF text = <<>> THEN <<>>
    ELSE <<LowerChar(Head(text))>> \o lower(Tail(text))

RECURSIVE upper(_)
upper(text) ==
    IF text = <<>> THEN <<>>
    ELSE <<UpperChar(Head(text))>> \o upper(Tail(text))

\* Python's  word in text  for str operands
Contains(text, word) ==
    \E i \in 1..(Len(text) - Len(word) + 1) :
        \A j \in 1..Len(word) : text[i + j - 1] = word[j]

\* Python's  seq[:n]
Take(seq, n) == SubSeq(seq, 1, IF Len(seq) < n THEN Len(seq) ELSE n)

RECURSIVE SumSeq(_)
SumSeq(seq) == IF seq = <<>> THEN 0 ELSE Head(seq) + SumSeq(Tail(seq))

(***************************************************************************)
(* try: ... except: return fallback.  The outcome of a block of code is a  *)
(* record: exc says that an exception left the block.                      *)
(***************************************************************************)
Raise == [exc |-> TRUE, val |-> <<>>]

Return(v) == [exc |-> FALSE, val |-> v]

TryExcept(body, fallback) == IF body.exc THEN Return(fallback) ELSE body

(***************************************************************************)
(* fetch_news (lines 62-70).  page is what the provider answers for the    *)
(* ticker's quote URL: fails says that requests.get or the parser raised,  *)
(* h3 lists the texts of the page's h3 elements in document order.         *)
(***************************************************************************)
NewsLimit == 5

fetch_news_try(page) ==
    IF page.fails THEN Raise ELSE Return(Take(page.h3, NewsLimit))

fetch_news(page) == TryExcept(fetch_news_try(page), <<>>)

(***************************************************************************)
(* sentiment_score (lines 76-83)                                           *)
(***************************************************************************)
positive_words ==
    << <<"b", "e", "a", "t", "s">>,
       <<"s", "o", "a", "r", "s">>,
       <<"g", "r", "o", "w", "t", "h">>,
       <<"j", "u", "m", "p">>,
       <<"r", "i", "s", "e", "s">>,
       <<"s", "t", "r", "o", "n", "g">>,
       <<"p", "r", "o", "f", "i", "t">> >>

negative_words ==
    << <<"f", "a", "l", "l", "s">>,
       <<"m", "i", "s", "s", "e", "s">>,
       <<"d", "r", "o", "p">>,
       <<"w", "e", "a", "k">>,
       <<"l", "o", "s", "s">>,
       <<"c", "u", "t", "s">>,
       <<"b", "a", "d">> >>

\* sum(word in text for word in words)
RECURSIVE CountIn(_, _)
CountIn(text, words) ==
    IF words = <<>> THEN 0
    ELSE (IF Contains(text, Head(words)) THEN 1 ELSE 0)
         + CountIn(text, Tail(words))

\* the text is not lower-cased first
sentiment_score_nolower(text) ==
    CountIn(text, positive_words) - CountIn(text, negative_words)

sentiment_score(text) ==
    LET t   == lower(text)
        pos == CountIn(t, positive_words)
        neg == CountIn(t, negative_words)
    IN  pos - neg

(***************************************************************************)
(* fundamental_score (lines 88-116).  src is what yfinance answers:        *)
(* fails says that a call raised; index is the set of row labels of        *)
(* stock.financials, cols its number of periods, rev and ni the figures of *)
(* the two rows, latest first.  A figure is <<v>>, or <<>> for NaN.        *)
(***************************************************************************)
NaN == <<>>

RowLabels == {"Total Revenue", "Net Income"}

\* a > b on floats: false when either side is NaN
Gt(a, b) == a # NaN /\ b # NaN /\ a[1] > b[1]

\* DataFrame.empty
FinEmpty(src) == src.index = {} \/ src.cols = 0

\* ", ".join(reason)
RECURSIVE Join(_)
Join(parts) ==
    IF Len(parts) = 0 THEN <<>>
    ELSE IF Len(parts) = 1 THEN <<parts[1]>>
    ELSE <<parts[1], ", ">> \o Join(Tail(parts))

fundamental_score_try(src) ==
    IF src.fails THEN Raise
    ELSE IF FinEmpty(src) THEN Return(<<0, <<"No financials">>>>)
    ELSE IF "Total Revenue" \notin src.index THEN Raise
    ELSE IF "Net Income" \notin src.index THEN Raise
    ELSE IF src.cols < 2 THEN Raise
    ELSE LET rev   == Take(src.rev, 2)
             ni    == Take(src.ni, 2)
             revUp == Gt(rev[1], rev[2])
             niUp  == Gt(ni[1], ni[2])
             score == (IF revUp THEN 10 ELSE -10) + (IF niUp THEN 10 ELSE -10)
             reason ==
                 << IF revUp THEN "Revenue growing" ELSE "Revenue declining",
                    IF niUp THEN "Net income improving"
                            ELSE "Net income declining" >>
         IN  Return(<<score, Join(reason)>>)

\* no except clause: the exception leaves the function
fundamental_score_nocatch(src) == fundamental_score_try(src)

\* >= where the code has >
GeFig(a, b) == a # NaN /\ b # NaN /\ a[1] >= b[1]

fundamental_score_ge(src) ==
    IF src.fails \/ (~FinEmpty(src) /\ (src.index # RowLabels \/ src.cols < 2))
    THEN Return(<<0, <<"Financial analysis error">>>>)
    ELSE IF FinEmpty(src) THEN Return(<<0, <<"No financials">>>>)
    ELSE LET revUp == GeFig(src.rev[1], src.rev[2])
             niUp  == GeFig(src.ni[1], src.ni[2])
         IN  Return(<<(IF revUp THEN 10 ELSE -10) + (IF niUp THEN 10 ELSE -10),
                      Join(<< IF revUp THEN "Revenue growing"
                                       ELSE "Revenue declining",
                              IF niUp THEN "Net income improving"
                                      ELSE "Net income declining" >>)>>)

fundamental_score(src) ==
    TryExcept(fundamental_score_try(src), <<0, <<"Financial analysis error">>>>)

(***************************************************************************)
(* trend_score (lines 121-135).  data is what yf.download answers: fails   *)
(* says that a call or the comparison raised, close is the Close column    *)
(* (integer-valued prices, oldest first).                                  *)
(***************************************************************************)
Window == 20

\* data["Close"].rolling(20).mean().iloc[-1]: NaN with fewer than 20
\* points, else the mean of the last 20 as the fraction num/den
RollingMeanLast(close, window) ==
    IF Len(close) < window THEN NaN
    ELSE <<[num |-> SumSeq(SubSeq(close, Len(close) - window + 1, Len(close))),
            den |-> window]>>

\* price > ma20
GtMean(price, ma) == ma # NaN /\ price * ma[1].den > ma[1].num

trend_score_try(data) ==
    IF data.fails THEN Raise
    ELSE IF Len(data.close) = 0 THEN Return(<<0, <<"No data">>>>)
    ELSE LET price == data.close[Len(data.close)]
             ma20  == RollingMeanLast(data.close, Window)
         IN  IF GtMean(price, ma20)
             THEN Return(<<10, <<"Uptrend">>>>)
             ELSE Return(<<-10, <<"Downtrend">>>>)

\* fewer than 20 points treated as an error
trend_score_nanerror(data) ==
    IF ~data.fails /\ Len(data.close) > 0 /\ Len(data.close) < Window
    THEN Return(<<0, <<"Trend error">>>>)
    ELSE TryExcept(trend_score_try(data), <<0, <<"Trend error">>>>)

trend_score(data) == TryExcept(trend_score_try(data), <<0, <<"Trend error">>>>)

(***************************************************************************)
(* classify (lines 140-145).  The labels are written without their emoji   *)
(* prefix.                                                                 *)
(***************************************************************************)
\* > where the code has >=
FGtInt(x, n) == FGeInt(x, n) /\ x.m # <<0, 0, 0, n>>

classify_strict(score) ==
    IF FGtInt(score, 60) THEN "STRONG BULLISH"
    ELSE IF FGtInt(score, 40) THEN "BULLISH"
    ELSE IF FGtInt(score, 25) THEN "NEUTRAL"
    ELSE IF FGtInt(score, 10) THEN "BEARISH"
    ELSE "STRONG BEARISH"

\* bands centred on zero: NEUTRAL from 0 up
classify_centred(score) ==
    IF FGeInt(score, 60) THEN "STRONG BULLISH"
    ELSE IF FGeInt(score, 40) THEN "BULLISH"
    ELSE IF FGeInt(score, 0) THEN "NEUTRAL"
    ELSE "STRONG BEARISH"

classify(score) ==
    IF FGeInt(score, 60) THEN "STRONG BULLISH"
    ELSE IF FGeInt(score, 40) THEN "BULLISH"
    ELSE IF FGeInt(score, 25) THEN "NEUTRAL"
    ELSE IF FGeInt(score, 10) THEN "BEARISH"
    ELSE "STRONG BEARISH"

(***************************************************************************)
(* generate_report (lines 150-159).  The html string is the sequence of    *)
(* its pieces: literal text, and [str |-> v] for the formatted value v.    *)
(* The dash of line 154 is written " - ".                                  *)
(***************************************************************************)
ReportTitle == <<"<h1>Market Scanner Report</h1>">>

ReportBlock(r) ==
    << "<h3>", [str |-> r.ticker], "</h3>",
       "<p>Score: ", [str |-> r.final_score], " - ", [str |-> r.signal], "</p>",
       "<p>News Score: ", [str |-> r.news], "</p>",
       "<p>Fundamentals: ", [str |-> r.fund], " (", [str |-> r.fund_reason], ")</p>",
       "<p>Trend: ", [str |-> r.trend], " (", [str |-> r.trend_reason], ")</p>",
       "<hr>" >>

RECURSIVE ReportLoop(_, _)
ReportLoop(html, results) ==
    IF results = <<>> THEN html
    ELSE ReportLoop(html \o ReportBlock(Head(results)), Tail(results))

\* the last record is left out
generate_report_short(results) ==
    ReportLoop(ReportTitle, SubSeq(results, 1, Len(results) - 1))

generate_report(results) == ReportLoop(ReportTitle, results)

(***************************************************************************)
(* The body of the scan loop (lines 168-194) for one ticker.               *)
(***************************************************************************)
WeightScale == 50

\* sum(sentiment_score(n) for n in news)
RECURSIVE SumSentiment(_)
SumSentiment(news) ==
    IF news = <<>> THEN 0
    ELSE sentiment_score(Head(news)) + SumSentiment(Tail(news))

\* line 171
NewsScore(news) == SumSentiment(news) * 5

\* the trend score weighted with the fundamental slider
Blend_wrongweight(news_score, f_score, t_score, w_news, w_fund, w_trend) ==
    FAdd(FAdd(FMulInt(news_score, FDivInt(w_news, WeightScale)),
              FMulInt(f_score, FDivInt(w_fund, WeightScale))),
         FMulInt(t_score, FDivInt(w_fund, WeightScale)))

\* lines 179-183
Blend(news_score, f_score, t_score, w_news, w_fund, w_trend) ==
    FAdd(FAdd(FMulInt(news_score, FDivInt(w_news, WeightScale)),
              FMulInt(f_score, FDivInt(w_fund, WeightScale))),
         FMulInt(t_score, FDivInt(w_trend, WeightScale)))

\* lines 185-194; round(n, 2) of an int n is n
ResultRecord(ticker, news_score, f, t, final) ==
    [ticker       |-> ticker,
     news         |-> news_score,
     fund         |-> f[1],
     fund_reason  |-> f[2],
     trend        |-> t[1],
     trend_reason |-> t[2],
     final_score  |-> PyRound2(final),
     signal       |-> classify(final)]

\* one pass of the loop body: what an exception leaving a scorer would do
\* to the run, and otherwise the locals and the appended record
scan_ticker(ticker, page, src, data, w_news, w_fund, w_trend) ==
    LET n == fetch_news(page)
        f == fundamental_score(src)
        t == trend_score(data)
    IN  IF n.exc \/ f.exc \/ t.exc THEN Raise
        ELSE LET news_score == NewsScore(n.val)
                 final == Blend(news_score, f.val[1], t.val[1],
                                w_news, w_fund, w_trend)
             IN  Return([news       |-> n.val,
                         news_score |-> news_score,
                         final      |-> final,
                         record     |-> ResultRecord(ticker, news_score,
                                                     f.val, t.val, final)])

(***************************************************************************)
(* The widgets (lines 31-57): the lists, the typed ticker, the sliders.    *)
(***************************************************************************)
etf_list ==
    << <<"S", "P", "Y">>, <<"Q", "Q", "Q">>, <<"D", "I", "A">>,
       <<"I", "W", "M">>, <<"V", "W", "O">>, <<"E", "E", "M">>,
       <<"X", "L", "F">>, <<"X", "L", "E">>, <<"X", "L", "K">>,
       <<"X", "L", "V">>, <<"X", "L", "Y">>, <<"X", "L", "P">>,
       <<"X", "L", "B">>, <<"I", "Y", "R">> >>

sector_list ==
    << <<"X", "L", "K">>, <<"X", "L", "F">>, <<"X", "L", "E">>,
       <<"X", "L", "Y">>, <<"X", "L", "P">>, <<"X", "L", "I">>,
       <<"X", "L", "V">>, <<"X", "L", "B">>, <<"X", "L", "U">> >>

ScanTypes == {"Single Asset", "Sector Scan", "ETF Scan"}

\* lines 42-49
TickersFor(scan_type, typed) ==
    IF scan_type = "Single Asset" THEN <<upper(typed)>>
    ELSE IF scan_type = "Sector Scan" THEN sector_list
    ELSE etf_list

DefaultTicker == <<"A", "A", "P", "L">>

DefaultWeight == 20

\* what the user may type into the ticker box
TypedTickers == {DefaultTicker, <<"m", "s", "f", "t">>}

\* slider positions sampled from 0..50
SliderValues == {0, 20, 22, 36, 50}

\* the slider settings the scan machine is run with
SliderSettings == {<<20, 20, 20>>, <<0, 36, 22>>}

(***************************************************************************)
(* The answers of the outside world.                                       *)
(***************************************************************************)
HeadlineBeats == <<"A", "A", "P", "L", " ", "b", "e", "a", "t", "s", " ", "e",
                   "s", "t", "i", "m", "a", "t", "e", "s">>

HeadlineMixed == <<"P", "r", "o", "f", "i", "t", " ", "d", "r", "o", "p", ":",
                   " ", "w", "e", "a", "k", " ", "s", "a", "l", "e", "s", ",",
                   " ", "b", "a", "d", " ", "l", "o", "s", "s">>

HeadlineRally == <<"S", "t", "o", "c", "k", " ", "s", "o", "a", "r", "s", ",",
                   " ", "j", "u", "m", "p", " ", "r", "i", "s", "e", "s", " ",
                   "o", "n", " ", "s", "t", "r", "o", "n", "g", " ", "p", "r",
                   "o", "f", "i", "t", " ", "g", "r", "o", "w", "t", "h">>

HeadlinePool == {HeadlineBeats, HeadlineMixed, HeadlineRally}

RECURSIVE SeqsUpTo(_, _)
SeqsUpTo(S, n) ==
    IF n = 0 THEN {<<>>}
    ELSE LET shorter == SeqsUpTo(S, n - 1)
         IN  shorter \cup {Append(q, x) : q \in {r \in shorter : Len(r) = n - 1}, x \in S}

\* pages with up to MaxH3 headings
MaxH3 == 6

Pages == [fails : BOOLEAN, h3 : SeqsUpTo(HeadlinePool, MaxH3)]

\* figures 1..MaxFigure and NaN, statements of up to MaxCols periods
MaxFigure == 2

MaxCols == 3

Figures == {NaN} \cup {<<v>> : v \in 1..MaxFigure}

Sources ==
    UNION {[fails : BOOLEAN, index : SUBSET RowLabels, cols : {c},
            rev : [1..c -> Figures], ni : [1..c -> Figures]] : c \in 0..MaxCols}

\* a Close column of n points: k points at level a, then n - k at level b
Series(n, k, a, b) == [i \in 1..n |-> IF i <= k THEN a ELSE b]

MaxPrice == 3

SeriesLens == {0, 1, Window - 1, Window, Window + 1}

Datas ==
    [fails : BOOLEAN,
     close : {Series(n, k, a, b) : n \in SeriesLens, k \in 0..(Window + 1),
                                   a \in 1..MaxPrice, b \in 1..MaxPrice}]

\* the answers the loop body is applied to
PageFail == [fails |-> TRUE, h3 |-> <<>>]

PageBeats == [fails |-> FALSE, h3 |-> <<HeadlineBeats>>]

BodyPages ==
    {PageFail, PageBeats,
     [fails |-> FALSE, h3 |-> <<>>],
     [fails |-> FALSE, h3 |-> <<HeadlineMixed>>],
     [fails |-> FALSE, h3 |-> <<HeadlineRally, HeadlineRally, HeadlineBeats>>]}

Statement(index, rev, ni) ==
    [fails |-> FALSE, index |-> index, cols |-> 2, rev |-> rev, ni |-> ni]

SrcFail == [fails |-> TRUE, index |-> {}, cols |-> 0, rev |-> <<>>, ni |-> <<>>]

SrcEmpty == [fails |-> FALSE, index |-> {}, cols |-> 0, rev |-> <<>>, ni |-> <<>>]

SrcUpUp == Statement(RowLabels, <<<<2>>, <<1>>>>, <<<<2>>, <<1>>>>)

BodySources ==
    {SrcFail, SrcEmpty, SrcUpUp,
     Statement({"Total Revenue"}, <<<<2>>, <<1>>>>, <<<<2>>, <<1>>>>),
     Statement(RowLabels, <<<<2>>, <<1>>>>, <<<<1>>, <<2>>>>),
     Statement(RowLabels, <<<<1>>, <<1>>>>, <<<<1>>, <<2>>>>)}

DataFail == [fails |-> TRUE, close |-> <<>>]

DataUp == [fails |-> FALSE, close |-> Series(Window, Window - 1, 1, 3)]

DataDown == [fails |-> FALSE, close |-> Series(Window, Window - 1, 3, 1)]

BodyDatas ==
    {DataFail, DataUp, DataDown,
     [fails |-> FALSE, close |-> <<>>],
     [fails |-> FALSE, close |-> <<3>>]}

\* the answers the runs of the whole script draw from: for each ticker,
\* whatever the earlier tickers got, the three sources either answer (a
\* headline, a growing statement, an uptrend) or all fail
RunPages == {PageFail, PageBeats}

Answer(page, src, data) == [page |-> page, src |-> src, data |-> data]

GoodAnswer == Answer(PageBeats, SrcUpUp, DataUp)

FailAnswer == Answer(PageFail, SrcFail, DataFail)

RunAnswers == {GoodAnswer, FailAnswer}

\* texts built from up to MaxFrags fragments
Fragments ==
    { <<"S", "t", "r", "o", "n", "g">>, <<" ">>,
      <<"G", "R", "O", "W", "T", "H">>, <<"b", "a", "d">>,
      <<"L", "o", "s", "s">>, <<"e", "s">>, <<"m", "i", "s">>, <<"s">> }

MaxFrags == 3

RECURSIVE Flatten(_)
Flatten(parts) ==
    IF parts = <<>> THEN <<>> ELSE Head(parts) \o Flatten(Tail(parts))

Texts == {Flatten(parts) : parts \in SeqsUpTo(Fragments, MaxFrags)}

\* scores: the hundredths up to MaxScore, either sign, and the doubles next
\* to the four thresholds
MaxScore == 70

Negate(x) == [neg |-> ~x.neg, m |-> x.m]

NearScores ==
    { FMulInt(154, FDivInt(5, 77)), FMulInt(195, FDivInt(5, 39)),
      FMulInt(39, FDivInt(25, 39)), FMulInt(154, FDivInt(20, 77)),
      FMulInt(110, FDivInt(6, 11)), FMulInt(170, FDivInt(6, 17)) }

Scores ==
    {FDivInt(k, 100) : k \in 0..(MaxScore * 100)}
    \cup {Negate(FDivInt(k, 100)) : k \in 0..(MaxScore * 100)}
    \cup NearScores

\* result lists of up to MaxResults records
MaxResults == 3

SampleRecords ==
    {scan_ticker(tk, page, src, DataUp, DefaultWeight, DefaultWeight,
                 DefaultWeight).val.record :
        tk \in {DefaultTicker, sector_list[1]}, page \in RunPages,
        src \in {SrcFail, SrcUpUp}}

ResultLists == SeqsUpTo(SampleRecords, MaxResults)

(***************************************************************************)
(* State.  The script's session and globals:                               *)
(*   auto        st.session_state.auto                                     *)
(*   timer       whether this run registered st_autorefresh (line 20)      *)
(*   scan_type, tickers, w_news, w_fund, w_trend   the widget values       *)
(*   results     the list built by the loop (empty while line 166 has not  *)
(*               bound it)                                                 *)
(*   final       the loop's last blend (unbound before the first pass)     *)
(*   report_html the report (empty until line 202)                         *)
(*   pc          where the run is: "start" in lines 15-164 (the widget     *)
(*               values are those of the request that started the run),    *)
(*               "loop" in lines 166-197 (in the loop, or the loop over    *)
(*               and the run at st.dataframe), "download"                  *)
(*               at st.download_button (line 204), "checkbox" at           *)
(*               st.checkbox (line 214), "done" after it, "raised" when an *)
(*               exception ended the run                                   *)
(*   checkbox    whether the page shows the checkbox of line 214: a run    *)
(*               of this session has drawn it (the page keeps the          *)
(*               elements of the run before while the next one runs)       *)
(* Streamlit stops a run for a rerun only where the run calls st.* (or has *)
(* ended): lines 20-164 call it ten times, the loop body never, so a rerun *)
(* asked for during the loop is delivered at line 197.  A rerun carries    *)
(* the values of all the widgets of the page, so one rerun may bring a     *)
(* tick of the checkbox together with other changes.                       *)
(* and, for the functions applied on their own, the call and its result:   *)
(*   fn, arg, ret   (arg and ret are records with the one field fn)       *)
(***************************************************************************)
VARIABLES auto, timer, scan_type, tickers, w_news, w_fund, w_trend,
          results, final, report_html, pc, checkbox, fn, arg, ret

vars == <<auto, timer, scan_type, tickers, w_news, w_fund, w_trend,
          results, final, report_html, pc, checkbox, fn, arg, ret>>

scan_vars == <<auto, timer, scan_type, tickers, w_news, w_fund, w_trend,
               results, final, report_html, pc, checkbox>>

call_vars == <<fn, arg, ret>>

Unbound == [unbound |-> TRUE]

\* report_html before line 202 (a report has at least its title)
NoReport == <<>>

\* no function applied yet
NoCall == [none |-> TRUE]

\* the input and the result of the function applied
Arg == arg[fn]

Ret == ret[fn]

\* a list kept from the run before
KeepResults(old) == old

\* results = [] (line 166), whatever the list held before
ResetResults(old) == <<>>

\* a run starts (lines 15-164): the session flag decides the timer, the
\* widgets give the tickers and the weights, and the globals of the run
\* before are gone
StartRun(flag, st, typed, w) ==
    /\ auto' = flag
    /\ timer' = flag
    /\ scan_type' = st
    /\ tickers' = TickersFor(st, typed)
    /\ w_news' = w[1]
    /\ w_fund' = w[2]
    /\ w_trend' = w[3]
    /\ results' = ResetResults(results)
    /\ final' = Unbound
    /\ report_html' = NoReport
    /\ pc' = "start"

\* the first run: no session flag yet, every widget at its default
Init ==
    /\ auto = FALSE
    /\ timer = FALSE
    /\ scan_type = "Single Asset"
    /\ tickers = TickersFor("Single Asset", DefaultTicker)
    /\ w_news = DefaultWeight
    /\ w_fund = DefaultWeight
    /\ w_trend = DefaultWeight
    /\ results = ResetResults(<<>>)
    /\ final = Unbound
    /\ report_html = NoReport
    /\ pc = "start"
    /\ checkbox = FALSE
    /\ fn = "none"
    /\ arg = NoCall
    /\ ret = NoCall

\* st.subheader of line 164 is drawn and line 166 binds results
EnterLoop ==
    /\ pc = "start"
    /\ results' = ResetResults(results)
    /\ pc' = "loop"
    /\ UNCHANGED <<auto, timer, scan_type, tickers, w_news, w_fund, w_trend,
                   final, report_html, checkbox, fn, arg, ret>>

\* one pass of the loop (lines 168-194)
ScanTicker ==
    /\ pc = "loop"
    /\ Len(results) < Len(tickers)
    /\ \E a \in RunAnswers :
          \E out \in {scan_ticker(tickers[Len(results) + 1], a.page, a.src,
                                 a.data, w_news, w_fund, w_trend)} :
              IF out.exc
              THEN /\ pc' = "raised"
                   /\ UNCHANGED <<results, final>>
              ELSE /\ results' = Append(results, out.val.record)
                   /\ final' = out.val.final
                   /\ pc' = "loop"
    /\ UNCHANGED <<auto, timer, scan_type, tickers, w_news, w_fund, w_trend,
                   report_html, checkbox, fn, arg, ret>>

\* the loop is over: the table of lines 196-197 is shown and the report of
\* line 202 is built; the run is now at st.download_button
ShowDataframe ==
    /\ pc = "loop"
    /\ Len(results) = Len(tickers)
    /\ report_html' = generate_report(results)
    /\ pc' = "download"
    /\ UNCHANGED <<auto, timer, scan_type, tickers, w_news, w_fund, w_trend,
                   results, final, checkbox, fn, arg, ret>>

\* lines 204-209: the download button is drawn; the run is now at
\* st.checkbox
DrawDownload ==
    /\ pc = "download"
    /\ pc' = "checkbox"
    /\ UNCHANGED <<auto, timer, scan_type, tickers, w_news, w_fund, w_trend,
                   results, final, report_html, checkbox, fn, arg, ret>>

\* line 214: the checkbox is drawn and the run ends
DrawCheckbox ==
    /\ pc = "checkbox"
    /\ checkbox' = TRUE
    /\ pc' = "done"
    /\ UNCHANGED <<auto, timer, scan_type, tickers, w_news, w_fund, w_trend,
                   results, final, report_html, fn, arg, ret>>

\* the run is where Streamlit can stop it: at an st.* call of lines
\* 20-164, at that of line 197, 204 or 214, or ended
AtStCall ==
    \/ pc = "start"
    \/ pc = "loop" /\ Len(results) = Len(tickers)
    \/ pc \in {"download", "checkbox", "done", "raised"}

\* the values the flag may have in a rerun: the checkbox, when the page
\* shows it, may have been ticked or unticked
Flags == IF checkbox THEN BOOLEAN ELSE {auto}

\* the user changes the selectbox, the ticker box or a slider, and perhaps
\* the checkbox with them: Streamlit stops the run at its st.* call and
\* runs the script again from the top with the values of the page
UserRerun ==
    /\ AtStCall
    /\ \E flag \in Flags, st \in ScanTypes, typed \in TypedTickers,
          w \in SliderSettings :
          StartRun(flag, st, typed, w)
    /\ UNCHANGED <<checkbox, fn, arg, ret>>

\* the user ticks or unticks the checkbox of line 214, on the page since a
\* run drew it, and nothing else: the flag flips and the script runs again
\* with the same widgets
ToggleAuto ==
    /\ checkbox
    /\ AtStCall
    /\ auto' = ~auto
    /\ timer' = ~auto
    /\ results' = ResetResults(results)
    /\ final' = Unbound
    /\ report_html' = NoReport
    /\ pc' = "start"
    /\ UNCHANGED <<scan_type, tickers, w_news, w_fund, w_trend, checkbox,
                   fn, arg, ret>>

\* the 60 s timer registered by this run fires: the same again
TimerRerun ==
    /\ timer
    /\ AtStCall
    /\ results' = ResetResults(results)
    /\ final' = Unbound
    /\ report_html' = NoReport
    /\ pc' = "start"
    /\ UNCHANGED <<auto, timer, scan_type, tickers, w_news, w_fund, w_trend,
                   checkbox, fn, arg, ret>>

Next ==
    \/ EnterLoop
    \/ ScanTicker
    \/ ShowDataframe
    \/ DrawDownload
    \/ DrawCheckbox
    \/ UserRerun
    \/ ToggleAuto
    \/ TimerRerun

Spec == Init /\ [][Next]_vars

(***************************************************************************)
(* The functions applied on their own: a behaviour applies one function to *)
(* one input and keeps the call and what it gave.                          *)
(***************************************************************************)
CallSentimentScore ==
    /\ fn = "none"
    /\ \E text \in Texts :
          /\ fn' = "sentiment_score"
          /\ arg' = [sentiment_score |-> text]
          /\ ret' = [sentiment_score |-> sentiment_score(text)]
    /\ UNCHANGED scan_vars

CallFetchNews ==
    /\ fn = "none"
    /\ \E page \in Pages :
          /\ fn' = "fetch_news"
          /\ arg' = [fetch_news |-> page]
          /\ ret' = [fetch_news |-> fetch_news(page)]
    /\ UNCHANGED scan_vars

CallFundamentalScore ==
    /\ fn = "none"
    /\ \E src \in Sources :
          /\ fn' = "fundamental_score"
          /\ arg' = [fundamental_score |-> src]
          /\ ret' = [fundamental_score |-> fundamental_score(src)]
    /\ UNCHANGED scan_vars

CallTrendScore ==
    /\ fn = "none"
    /\ \E data \in Datas :
          /\ fn' = "trend_score"
          /\ arg' = [trend_score |-> data]
          /\ ret' = [trend_score |-> trend_score(data)]
    /\ UNCHANGED scan_vars

CallClassify ==
    /\ fn = "none"
    /\ \E score \in Scores :
          /\ fn' = "classify"
          /\ arg' = [classify |-> score]
          /\ ret' = [classify |-> classify(score)]
    /\ UNCHANGED scan_vars

CallGenerateReport ==
    /\ fn = "none"
    /\ \E list \in ResultLists :
          /\ fn' = "generate_report"
          /\ arg' = [generate_report |-> list]
          /\ ret' = [generate_report |-> generate_report(list)]
    /\ UNCHANGED scan_vars

CallScanTicker ==
    /\ fn = "none"
    /\ \E page \in BodyPages, src \in BodySources, data \in BodyDatas,
          wn \in SliderValues, wf \in SliderValues, wt \in SliderValues :
          /\ fn' = "scan_ticker"
          /\ arg' = [scan_ticker |->
                        [ticker |-> DefaultTicker, page |-> page,
                         src |-> src, data |-> data,
                         w_news |-> wn, w_fund |-> wf, w_trend |-> wt]]
          /\ ret' = [scan_ticker |->
                        scan_ticker(DefaultTicker, page, src, data, wn, wf, wt)]
    /\ UNCHANGED scan_vars

NextUnit ==
    \/ CallSentimentScore
    \/ CallFetchNews
    \/ CallFundamentalScore
    \/ CallTrendScore
    \/ CallClassify
    \/ CallGenerateReport
    \/ CallScanTicker

SpecUnit == Init /\ [][NextUnit]_vars

(***************************************************************************)
(* Properties.                                                             *)
(***************************************************************************)
ResultFields ==
    {"ticker", "news", "fund", "fund_reason", "trend", "trend_reason",
     "final_score", "signal"}

Labels ==
    {"STRONG BULLISH", "BULLISH", "NEUTRAL", "BEARISH", "STRONG BEARISH"}

\* C1: in every run the list built by the loop is a prefix-by-prefix image
\* of the requested tickers: never longer than the ticker list, its i-th
\* record carrying the i-th ticker of this run (so nothing of an earlier
\* run is in it), empty from the start of the run, whatever stopped the run
\* before and wherever, until the first pass of this run, of the same
\* length as the ticker list once the run is past the table of line 197,
\* and the report built from it has one block per requested ticker, the
\* i-th headed by the i-th ticker
C1_OneResultPerTicker ==
    /\ Len(results) <= Len(tickers)
    /\ \A i \in 1..Len(results) : results[i].ticker = tickers[i]
    /\ pc \in {"download", "checkbox", "done"} => Len(results) = Len(tickers)
    /\ final = Unbound => results = <<>>
    /\ pc = "start" => results = <<>>
    /\ report_html # NoReport =>
          /\ Len(report_html) = 1 + 22 * Len(tickers)
          /\ \A i \in 1..Len(tickers) :
                report_html[22 * (i - 1) + 3] = [str |-> tickers[i]]

\* a timer-driven run of the sector scan that followed a single-asset run
\* has ended: nine records, the last for XLU, two of them from failed
\* sources
C1_Witness ==
    /\ pc = "done"
    /\ timer
    /\ scan_type = "Sector Scan"
    /\ tickers = sector_list
    /\ Len(results) = 9
    /\ results[9].ticker = <<"X", "L", "U">>
    /\ results[2].fund_reason = <<"Financial analysis error">>
    /\ results[5].fund_reason = <<"Financial analysis error">>
    /\ results[9].fund = 20
    /\ report_html[179] = [str |-> <<"X", "L", "U">>]

\* two characters that are the same letter, whatever their case
SameLetter(c, d) ==
    \/ c = d
    \/ \E k \in Letters : {c, d} = {LowerCase[k], UpperCase[k]}

\* word occurs somewhere in text, letter case aside
Occurs(text, word) ==
    \E i \in 1..(Len(text) - Len(word) + 1) :
        \A j \in 1..Len(word) : SameLetter(text[i + j - 1], word[j])

TermsIn(text, words) == Cardinality({k \in 1..Len(words) : Occurs(text, words[k])})

SwapCase(text) ==
    [i \in 1..Len(text) |->
        IF UpperChar(text[i]) # text[i] THEN UpperChar(text[i])
        ELSE LowerChar(text[i])]

\* C9: sentiment_score(text) is the number of positive terms occurring in
\* the text, letter case aside, minus the number of negative terms so
\* occurring, each term counted once; it lies in -7..7, is 0 for the empty
\* string and is the same for the text in other letter case
C9_SentimentCount ==
    fn = "sentiment_score" =>
        /\ Ret = TermsIn(Arg, positive_words) - TermsIn(Arg, negative_words)
        /\ Ret \in -7..7
        /\ Arg = <<>> => Ret = 0
        /\ sentiment_score(upper(Arg)) = Ret
        /\ sentiment_score(SwapCase(Arg)) = Ret

\* "Strong GROWTH" scores 2
C9_Witness ==
    /\ fn = "sentiment_score"
    /\ Arg = <<"S", "t", "r", "o", "n", "g", " ", "G", "R", "O", "W", "T", "H">>
    /\ Ret = 2

\* the first two figures of a row, as the comparison of the code sees them
Exceeds(row) == row[1] # NaN /\ row[2] # NaN /\ row[1][1] > row[2][1]

\* C5: fundamental_score gives (0, "No financials") for an empty statement;
\* for a statement with both rows and two periods it gives +10 or -10 for
\* revenue plus +10 or -10 for net income, +10 exactly when the latest
\* figure strictly exceeds the prior one (equal figures count as
\* declining), so the score is -20, 0 or 20, and 20 exactly when both
\* exceed; the reason is the revenue fragment, then the net-income
\* fragment, matching the signs
C5_FundamentalScore ==
    fn = "fundamental_score" =>
        /\ ~Ret.exc
        /\ (~Arg.fails /\ (Arg.index = {} \/ Arg.cols = 0))
              => Ret.val = <<0, <<"No financials">>>>
        /\ (~Arg.fails /\ Arg.index = RowLabels /\ Arg.cols >= 2) =>
              LET revUp == Exceeds(Arg.rev)
                  niUp  == Exceeds(Arg.ni)
              IN  /\ Ret.val[1] = (IF revUp THEN 10 ELSE -10)
                                  + (IF niUp THEN 10 ELSE -10)
                  /\ Ret.val[1] \in {-20, 0, 20}
                  /\ Ret.val[1] = 20 <=> (revUp /\ niUp)
                  /\ Ret.val[1] = 20 =>
                        Ret.val[2] = <<"Revenue growing", ", ",
                                        "Net income improving">>
                  /\ Len(Ret.val[2]) = 3
                  /\ Ret.val[2][1] = (IF revUp THEN "Revenue growing"
                                               ELSE "Revenue declining")
                  /\ Ret.val[2][2] = ", "
                  /\ Ret.val[2][3] = (IF niUp THEN "Net income improving"
                                              ELSE "Net income declining")

\* equal revenue figures count as declining while net income improves
C5_Witness ==
    /\ fn = "fundamental_score"
    /\ ~Arg.fails
    /\ Arg.index = RowLabels
    /\ Arg.cols = 3
    /\ Arg.rev[1] = <<2>>
    /\ Arg.rev[2] = <<2>>
    /\ Arg.ni[1] = <<2>>
    /\ Arg.ni[2] = <<1>>
    /\ Ret.val = <<0, <<"Revenue declining", ", ", "Net income improving">>>>

RECURSIVE SumRange(_, _, _)
SumRange(seq, lo, hi) ==
    IF lo > hi THEN 0 ELSE seq[hi] + SumRange(seq, lo, hi - 1)

\* the latest close is above the mean of the last 20 closes
AboveAverage(close) ==
    /\ Len(close) >= 20
    /\ 20 * close[Len(close)] > SumRange(close, Len(close) - 19, Len(close))

\* C6: for every non-empty Close column trend_score gives (10, "Uptrend")
\* when the latest close exceeds the 20-period average and (-10,
\* "Downtrend") otherwise, also with fewer than 20 points; 0 is given only
\* for empty data ("No data") and for a caught failure ("Trend error")
C6_TrendScore ==
    fn = "trend_score" =>
        /\ ~Ret.exc
        /\ (~Arg.fails /\ Len(Arg.close) > 0) =>
              Ret.val = (IF AboveAverage(Arg.close)
                         THEN <<10, <<"Uptrend">>>>
                         ELSE <<-10, <<"Downtrend">>>>)
        /\ Ret.val[1] = 0 =>
              \/ Arg.fails /\ Ret.val[2] = <<"Trend error">>
              \/ ~Arg.fails /\ Len(Arg.close) = 0 /\ Ret.val[2] = <<"No data">>

\* 19 points, the latest above all the others: Downtrend
C6_Witness ==
    /\ fn = "trend_score"
    /\ ~Arg.fails
    /\ Len(Arg.close) = 19
    /\ Arg.close[19] = 3
    /\ \A i \in 1..18 : Arg.close[i] = 1
    /\ Ret.val = <<-10, <<"Downtrend">>>>

\* the integer part of a score: the largest integer not above it
Floor(x) ==
    IF x.neg /\ x.m # MagZero
    THEN -x.m[4] - (IF x.m[1] = 0 /\ x.m[2] = 0 /\ x.m[3] = 0 THEN 0 ELSE 1)
    ELSE x.m[4]

\* C3: classify gives exactly one of the five labels for every score:
\* STRONG BULLISH iff f >= 60, BULLISH iff 40 <= f < 60, NEUTRAL iff
\* 25 <= f < 40, BEARISH iff 10 <= f < 25, STRONG BEARISH iff f < 10
C3_ClassifyBands ==
    fn = "classify" =>
        LET f == Floor(Arg)
        IN  /\ Ret \in Labels
            /\ Ret = "STRONG BULLISH" <=> f >= 60
            /\ Ret = "BULLISH" <=> (40 <= f /\ f < 60)
            /\ Ret = "NEUTRAL" <=> (25 <= f /\ f < 40)
            /\ Ret = "BEARISH" <=> (10 <= f /\ f < 25)
            /\ Ret = "STRONG BEARISH" <=> f < 10

\* the boundary 25.0 itself is NEUTRAL
C3_Witness ==
    /\ fn = "classify"
    /\ Arg = [neg |-> FALSE, m |-> <<0, 0, 0, 25>>]
    /\ Ret = "NEUTRAL"

\* what went wrong at a data source
FinFailure(src) ==
    \/ src.fails
    \/ ~FinEmpty(src) /\ (src.index # RowLabels \/ src.cols < 2)

\* C2: no failure of a data source leaves fetch_news, fundamental_score or
\* trend_score: fetch_news then gives the empty list, fundamental_score
\* (0, "Financial analysis error") or, for empty data, (0, "No
\* financials"), trend_score (0, "Trend error") or (0, "No data"); so one
\* pass of the loop never raises and gives a record with all eight fields
C2_NoFailurePropagates ==
    /\ fn = "fetch_news" =>
          /\ ~Ret.exc
          /\ Arg.fails => Ret.val = <<>>
    /\ fn = "fundamental_score" =>
          /\ ~Ret.exc
          /\ FinFailure(Arg) => Ret.val = <<0, <<"Financial analysis error">>>>
          /\ (~Arg.fails /\ FinEmpty(Arg)) => Ret.val = <<0, <<"No financials">>>>
    /\ fn = "trend_score" =>
          /\ ~Ret.exc
          /\ Arg.fails => Ret.val = <<0, <<"Trend error">>>>
          /\ (~Arg.fails /\ Arg.close = <<>>) => Ret.val = <<0, <<"No data">>>>
    /\ fn = "scan_ticker" =>
          /\ ~Ret.exc
          /\ DOMAIN Ret.val.record = ResultFields
          /\ Ret.val.record.signal \in Labels

\* every data source fails and the pass still gives its record
C2_Witness ==
    /\ fn = "scan_ticker"
    /\ Arg.page.fails
    /\ Arg.src.fails
    /\ Arg.data.fails
    /\ ~Ret.exc
    /\ Ret.val.record.fund_reason = <<"Financial analysis error">>
    /\ Ret.val.record.trend_reason = <<"Trend error">>

\* news_score*w_news + fund*w_fund + trend*w_trend of a pass of the loop
WeightedSum(a, r) ==
    r.news_score * a.w_news + r.record.fund * a.w_fund
    + r.record.trend * a.w_trend

\* the double nearest to k/50
FiftiethOf(k) == [neg |-> k < 0, m |-> FDivInt(Abs(k), 50).m]

\* x and y are the same number (0.0 = -0.0)
SameNumber(x, y) == x.m = y.m /\ (x.m # MagZero => x.neg = y.neg)

\* |50*x - k| < 2^-40
NearlyFiftieth(x, k) ==
    LET e == MagScale(x.m, 50)
        t == <<0, 0, 0, Abs(k)>>
        d == IF MagLess(e, t) THEN MagSub(t, e) ELSE MagSub(e, t)
    IN  /\ d[2] = 0 /\ d[3] = 0 /\ d[4] = 0
        /\ (k # 0 /\ x.m # MagZero) => x.neg = (k < 0)

\* C4 as stated: the blend of lines 179-183 is (news_score*w_news +
\* fund*w_fund + trend*w_trend)/50
C4_BlendExact ==
    fn = "scan_ticker" =>
        SameNumber(Ret.val.final, FiftiethOf(WeightedSum(Arg, Ret.val)))

\* C4, amended: the recorded final_score, the blend rounded to 2 decimals,
\* is the double nearest to (news_score*w_news + fund*w_fund +
\* trend*w_trend)/50; the unrounded blend is within 2^-40 of that sum over
\* 50; with all weights 0 it is zero, with weight 0 for the news it does
\* not depend on the news score, and a weight of 50 alone passes the
\* component through unscaled
C4_BlendRounded ==
    fn = "scan_ticker" =>
        LET r == Ret.val
            k == WeightedSum(Arg, r)
        IN  /\ SameNumber(r.record.final_score, FiftiethOf(k))
            /\ NearlyFiftieth(r.final, k)
            /\ (Arg.w_news = 0 /\ Arg.w_fund = 0 /\ Arg.w_trend = 0)
                  => r.final.m = MagZero
            /\ Arg.w_news = 0 =>
                  SameNumber(r.record.final_score,
                             FiftiethOf(r.record.fund * Arg.w_fund
                                        + r.record.trend * Arg.w_trend))
            /\ (Arg.w_news = 50 /\ Arg.w_fund = 0 /\ Arg.w_trend = 0)
                  => r.final.m = <<0, 0, 0, Abs(r.news_score)>>
            /\ (Arg.w_news = 0 /\ Arg.w_fund = 50 /\ Arg.w_trend = 0)
                  => r.final.m = <<0, 0, 0, Abs(r.record.fund)>>

\* fund 20 and trend -10 with weights 36 and 22: the blend is just below
\* 10 and is recorded as 10.0
C4_Witness ==
    /\ fn = "scan_ticker"
    /\ Arg.w_fund = 36
    /\ Arg.w_trend = 22
    /\ Ret.val.news_score = 0
    /\ Ret.val.record.fund = 20
    /\ Ret.val.record.trend = -10
    /\ Ret.val.record.final_score = [neg |-> FALSE, m |-> <<0, 0, 0, 10>>]
    /\ Ret.val.final # Ret.val.record.final_score

\* 5 times the summed sentiment of the headlines a page gives the loop
ExpectedNews(page) ==
    IF page.fails THEN 0
    ELSE 5 * SumRange([i \in 1..Len(page.h3) |-> sentiment_score(page.h3[i])],
                      1, IF Len(page.h3) < 5 THEN Len(page.h3) ELSE 5)

\* C7: the record of a pass has as news 5 times the summed sentiment of
\* the ticker's headlines, as final_score the weighted blend of news, fund
\* and trend, and as signal the classification of that final_score; for
\* AAPL, ["AAPL beats estimates"], fund 20, trend 10 and weights
\* (20, 20, 20): news 5, final_score 14.0, signal BEARISH
C7_Pipeline ==
    fn = "scan_ticker" =>
        LET r == Ret.val.record
        IN  /\ r.news = ExpectedNews(Arg.page)
            /\ SameNumber(r.final_score,
                          FiftiethOf(r.news * Arg.w_news + r.fund * Arg.w_fund
                                     + r.trend * Arg.w_trend))
            /\ r.signal = classify(r.final_score)
            /\ (/\ Arg.ticker = <<"A", "A", "P", "L">>
                /\ Arg.page = PageBeats
                /\ r.fund = 20
                /\ r.trend = 10
                /\ Arg.w_news = 20 /\ Arg.w_fund = 20 /\ Arg.w_trend = 20)
                  => /\ r.news = 5
                     /\ r.final_score = [neg |-> FALSE, m |-> <<0, 0, 0, 14>>]
                     /\ r.signal = "BEARISH"

\* C8: generate_report gives the title followed by one block per record,
\* in the order of the list: the i-th block opens with the header of the
\* i-th record, holds its score, news, fundamentals and trend lines and
\* closes with the separator; for the empty list the title alone
C8_ReportBlocks ==
    fn = "generate_report" =>
        /\ Len(Ret) = 1 + 22 * Len(Arg)
        /\ Ret[1] = "<h1>Market Scanner Report</h1>"
        /\ \A i \in 1..Len(Arg) :
              LET at == 1 + 22 * (i - 1)
              IN  /\ Ret[at + 1] = "<h3>"
                  /\ Ret[at + 2] = [str |-> Arg[i].ticker]
                  /\ Ret[at + 3] = "</h3>"
                  /\ Ret[at + 5] = [str |-> Arg[i].final_score]
                  /\ Ret[at + 7] = [str |-> Arg[i].signal]
                  /\ Ret[at + 10] = [str |-> Arg[i].news]
                  /\ Ret[at + 13] = [str |-> Arg[i].fund]
                  /\ Ret[at + 15] = [str |-> Arg[i].fund_reason]
                  /\ Ret[at + 18] = [str |-> Arg[i].trend]
                  /\ Ret[at + 20] = [str |-> Arg[i].trend_reason]
                  /\ Ret[at + 22] = "<hr>"
        /\ Arg = <<>> => Ret = <<"<h1>Market Scanner Report</h1>">>

\* a report of three records, the first and the last for different tickers
C8_Witness ==
    /\ fn = "generate_report"
    /\ Len(Arg) = 3
    /\ Arg[1].ticker = <<"A", "A", "P", "L">>
    /\ Arg[3].ticker = <<"X", "L", "K">>
    /\ Ret[2] = "<h3>"
    /\ Ret[47] = [str |-> <<"X", "L", "K">>]
    /\ Len(Ret) = 67

\* every data source of the pass gave its fallback
AllFallbacks(a) ==
    /\ a.page.fails \/ a.page.h3 = <<>>
    /\ a.src.fails \/ a.src.index = {} \/ a.src.cols = 0
    /\ a.data.fails \/ a.data.close = <<>>

\* C10: whatever the weights, a pass whose three data sources all gave
\* their fallbacks records final_score 0 and signal STRONG BEARISH; and
\* whenever the news score is 0 the blend is at most 30, so the signal is
\* neither BULLISH nor STRONG BULLISH
C10_FallbackIsStrongBearish ==
    fn = "scan_ticker" =>
        LET r == Ret.val
        IN  /\ AllFallbacks(Arg) =>
                  /\ r.record.final_score.m = MagZero
                  /\ r.final.m = MagZero
                  /\ r.record.signal = "STRONG BEARISH"
            /\ r.news_score = 0 =>
                  /\ r.final.neg \/ ~MagLess(<<0, 0, 0, 30>>, r.final.m)
                  /\ r.record.signal \notin {"BULLISH", "STRONG BULLISH"}

\* the three sources fail under full weights
C10_Witness ==
    /\ fn = "scan_ticker"
    /\ Arg.w_news = 50 /\ Arg.w_fund = 50 /\ Arg.w_trend = 50
    /\ Arg.page.fails /\ Arg.src.fails /\ Arg.data.fails
    /\ Ret.val.record.final_score = FZero
    /\ Ret.val.record.signal = "STRONG BEARISH"

====
